---- MODULE Spec2Model ----
(***************************************************************************)
(* news_bot.py: a scheduled news digest.  One run collects feed entries    *)
(* per keyword (fetch_news), asks a generative-language service for a      *)
(* digest (generate_report) and mails it (send_email).                     *)
(*                                                                         *)
(* Strings the code inspects are sequences of characters (one-character    *)
(* TLA+ strings); Korean syllables are written in romanised form, one      *)
(* syllable per element.  Instants are whole hours on a UTC axis.          *)
(***************************************************************************)
EXTENDS Integers, Sequences, FiniteSets, TLC

VARIABLES
    GOOGLE_API_KEY,   \* environment: TRUE when the key is set and non-empty
    EMAIL_RECEIVERS,  \* environment: a string, or None when the variable is unset
    pc,               \* position of the single thread of control
    now,              \* the wall clock (UTC hours), read by datetime.now
    keyword,          \* fetch_news: index into KEYWORDS of the loop variable
    pending,          \* fetch_news: the entries of feed.entries[:3] not yet read
    beyond,           \* fetch_news: feed.entries[3:], which the inner loop never reads
    news_items,       \* fetch_news: the accumulating result list
    items,            \* __main__: the list fetch_news returned
    response,         \* generate_report: response.text of the service
    report_html,      \* __main__: what generate_report returned
    genai_calls,      \* calls issued to the generative-language client, in order
    smtp_calls,       \* calls issued to the SMTP client, in order
    session,          \* the SMTP session: "none", "open" or "closed"
    sent,             \* envelope recipient lists handed to sendmail, in order
    stdout            \* the lines printed, by kind

vars == <<GOOGLE_API_KEY, EMAIL_RECEIVERS, pc, now, keyword, pending, beyond, news_items,
          items, response, report_html, genai_calls, smtp_calls, session, sent, stdout>>

----------------------------------------------------------------------------
(* Bounds of the model *)

NumKeywords == 2      \* length of KEYWORDS (14 in the source)
MaxFeedLen == 4       \* longest feed.entries a keyword's feed returns
StartHour == 48       \* the hour at which a run starts
MaxTicks == 1         \* hours the clock may advance during one run
MaxSkew == 6          \* probed timestamps lie within this many hours of the window's edge
MaxPieces == 4        \* pieces a response text is made of
MaxRecvLen == 4       \* characters of a generated EMAIL_RECEIVERS value

(* Program constants *)

FAN_IN == 3           \* feed.entries[:3]
WINDOW_HOURS == 24    \* timedelta(hours=24)

None == <<"None">>    \* Python's None, where a string or a list is expected

Falsy(x) == x = None \/ x = <<>>

Min(a, b) == IF a <= b THEN a ELSE b

Range(s) == {s[i] : i \in 1..Len(s)}

----------------------------------------------------------------------------
(* Strings *)

\* s[i..j], empty when i > j
Slice(s, i, j) == IF i > j THEN <<>> ELSE [n \in 1..(j - i + 1) |-> s[i + n - 1]]

\* pat occurs in s at position i
MatchAt(s, pat, i) ==
    /\ i >= 1
    /\ i + Len(pat) - 1 <= Len(s)
    /\ \A n \in 1..Len(pat) : s[i + n - 1] = pat[n]

\* Python's `pat in s`
Contains(s, pat) == \E i \in 1..(Len(s) + 1) : MatchAt(s, pat, i)

\* Python's s.replace(pat, rep) for a non-empty pat: non-overlapping
\* occurrences, leftmost first, in one pass over s
RECURSIVE ReplaceFrom(_, _, _, _)
ReplaceFrom(s, pat, rep, i) ==
    IF i > Len(s) THEN <<>>
    ELSE IF MatchAt(s, pat, i) THEN rep \o ReplaceFrom(s, pat, rep, i + Len(pat))
    ELSE <<s[i]>> \o ReplaceFrom(s, pat, rep, i + 1)

Replace(s, pat, rep) == ReplaceFrom(s, pat, rep, 1)

Whitespace == {" ", "\t", "\n"}

\* Python's s.strip()
RECURSIVE LStrip(_)
LStrip(s) == IF s # <<>> /\ Head(s) \in Whitespace THEN LStrip(Tail(s)) ELSE s

RECURSIVE RStrip(_)
RStrip(s) ==
    IF s # <<>> /\ s[Len(s)] \in Whitespace THEN RStrip(SubSeq(s, 1, Len(s) - 1)) ELSE s

Strip(s) == RStrip(LStrip(s))

\* Python's s.split(sep) for a one-character sep: the fields between the
\* separators, empty fields kept
RECURSIVE SplitFrom(_, _, _, _)
SplitFrom(s, sep, i, start) ==
    IF i > Len(s) THEN <<Slice(s, start, Len(s))>>
    ELSE IF s[i] = sep THEN <<Slice(s, start, i - 1)>> \o SplitFrom(s, sep, i + 1, i + 1)
    ELSE SplitFrom(s, sep, i + 1, start)

Split(s, sep) == SplitFrom(s, sep, 1, 1)

----------------------------------------------------------------------------
(* Configuration *)

KEYWORDS == [k \in 1..NumKeywords |-> k]

EXCLUDE_KEYWORDS ==
    << <<"teuk", "jing", "ju">>, <<"te", "ma", "ju">>, <<"gwan", "ryeon", "ju">>,
       <<"ju", "ga">>, <<"geup", "deung">>, <<"geup", "rak">>,
       <<"sang", "han", "ga">>, <<"ha", "han", "ga">>,
       <<"geo", "rae", "ryang">>, <<"mae", "su">>, <<"mae", "do">>,
       <<"mok", "pyo", "ga">>, <<"che", "gyeol">>, <<"jeung", "si">>,
       <<"jong", "mok">>, <<"tu", "ja", "ja">>,
       <<"ji", "su">>, <<"ko", "seu", "pi">>, <<"ko", "seu", "dak">>, <<"ma", "gam">> >>

----------------------------------------------------------------------------
(* is_stock_noise, is_recent *)

is_stock_noise(title) ==
    \E b \in 1..Len(EXCLUDE_KEYWORDS) : Contains(title, EXCLUDE_KEYWORDS[b])

\* A published string: form "empty" is "", "malformed" is text that
\* parsedate_to_datetime rejects, "naive" is a date without zone (wall is
\* the hour it shows), "aware" a date with zone off hours east of UTC.
PublishedStr(form, wall, off) == [form |-> form, wall |-> wall, off |-> off]

EmptyStr == PublishedStr("empty", 0, 0)
Malformed == PublishedStr("malformed", 0, 0)

Parseable(p) == p.form \in {"naive", "aware"}

\* pub_date on the UTC axis: astimezone(utc) of an aware date, replace(tzinfo=utc)
\* of a naive one
UtcHour(p) == IF p.form = "aware" THEN p.wall - p.off ELSE p.wall

\* is_recent(published_str), with the value datetime.now(timezone.utc) returns
is_recent(published_str, now_utc) ==
    IF published_str.form = "empty" THEN FALSE
    ELSE IF published_str.form = "malformed" THEN TRUE
    ELSE UtcHour(published_str) > now_utc - WINDOW_HOURS

----------------------------------------------------------------------------
(* Feed entries.  An entry is a record holding the fields the feed gave it; *)
(* reading a field it lacks raises AttributeError.                         *)

Has(entry, f) == f \in DOMAIN entry

CleanTitle == <<"geon", "seol", "ja", "jae">>
NoisyTitle == <<"geon", "seol", "ju", "ga", "geup", "deung">>

\* shown in KST; one hour inside the window when the run starts
FreshDate == PublishedStr("aware", StartHour - WINDOW_HOURS + 1 + 9, 9)

\* entries a feed may hold among its first FAN_IN
EntrySamples ==
    { [published |-> FreshDate, title |-> CleanTitle, link |-> "L1"],
      [published |-> FreshDate, title |-> CleanTitle, link |-> "L2"],
      [published |-> Malformed, title |-> CleanTitle, link |-> "L3"],
      [published |-> EmptyStr,  title |-> CleanTitle, link |-> "L3"],
      [published |-> FreshDate, title |-> NoisyTitle, link |-> "L1"],
      [title |-> CleanTitle, link |-> "L2"],
      [published |-> FreshDate, link |-> "L2"] }

\* entries a feed may hold after them
LateSamples == { [published |-> FreshDate, title |-> CleanTitle, link |-> "L4"] }

FeedSamples ==
    UNION {[1..n -> EntrySamples] : n \in 0..FAN_IN}
    \cup UNION { {h \o t : h \in [1..FAN_IN -> EntrySamples], t \in [1..n -> LateSamples]}
                 : n \in 1..(MaxFeedLen - FAN_IN) }

----------------------------------------------------------------------------
(* fetch_news *)

\* feed.entries[:4]
FirstEntriesOneMore(entries) == SubSeq(entries, 1, Min(Len(entries), FAN_IN + 1))

\* feed.entries[:3]
FirstEntries(entries) == SubSeq(entries, 1, Min(Len(entries), FAN_IN))

\* any(item['title'] == entry.link for item in news_items)
RetainedByTitle(link, list) == \E i \in 1..Len(list) : list[i].title = <<link>>

\* any(item['link'] == entry.link for item in news_items)
Retained(link, list) == \E i \in 1..Len(list) : list[i].link = link

\* the loop body raises on this entry: a field it reads is not there
EntryRaises(entry, now_utc) ==
    \/ ~Has(entry, "published")
    \/ /\ is_recent(entry.published, now_utc)
       /\ \/ ~Has(entry, "title")
          \/ /\ ~is_stock_noise(entry.title)
             /\ ~Has(entry, "link")

\* the loop body appends this entry
EntryAccepted(entry, list, now_utc) ==
    /\ ~EntryRaises(entry, now_utc)
    /\ is_recent(entry.published, now_utc)
    /\ ~is_stock_noise(entry.title)
    /\ ~Retained(entry.link, list)

NewsItem(entry, k) ==
    [title |-> entry.title, link |-> entry.link, keyword |-> KEYWORDS[k],
     date |-> entry.published]

\* the clock when it is next read: it never runs backwards
ClockReadings == now..Min(now + 1, StartHour + MaxTicks)

\* except Exception as e: print(...); break
KeywordFailedBreak ==
    /\ stdout' = Append(stdout, "keyword_error")
    /\ keyword' = Len(KEYWORDS) + 1
    /\ pc' = "for_keyword"
    /\ UNCHANGED news_items

\* except Exception as e: print(...); continue
KeywordFailed ==
    /\ stdout' = Append(stdout, "keyword_error")
    /\ keyword' = keyword + 1
    /\ pc' = "for_keyword"
    /\ UNCHANGED news_items

\* feedparser.parse(url) returns a feed whose entries are drawn from feeds;
\* the inner loop is set up over its first entries
ParseFeed(feeds) ==
    /\ pc = "for_keyword"
    /\ keyword <= Len(KEYWORDS)
    /\ \E f \in feeds :
         /\ pending' = FirstEntries(f)
         /\ beyond' = SubSeq(f, Len(FirstEntries(f)) + 1, Len(f))
    /\ pc' = "for_entry"
    /\ UNCHANGED <<GOOGLE_API_KEY, EMAIL_RECEIVERS, now, keyword, news_items, items,
                   response, report_html, genai_calls, smtp_calls, session, sent, stdout>>

\* feedparser.parse(url) raises
ParseFeedRaises ==
    /\ pc = "for_keyword"
    /\ keyword <= Len(KEYWORDS)
    /\ KeywordFailed
    /\ UNCHANGED <<GOOGLE_API_KEY, EMAIL_RECEIVERS, now, pending, beyond, items,
                   response, report_html, genai_calls, smtp_calls, session, sent>>

\* one pass of the body of `for entry in feed.entries[:3]`, on the next
\* entry; when it raises, the rest of the feed is dropped with the loop
ForEntry ==
    /\ pc = "for_entry"
    /\ pending # <<>>
    /\ \E t \in ClockReadings :
         /\ now' = t
         /\ IF EntryRaises(Head(pending), t)
            THEN /\ KeywordFailed
                 /\ pending' = <<>>
                 /\ beyond' = <<>>
            ELSE /\ news_items' = IF EntryAccepted(Head(pending), news_items, t)
                                  THEN Append(news_items, NewsItem(Head(pending), keyword))
                                  ELSE news_items
                 /\ pending' = Tail(pending)
                 /\ UNCHANGED <<pc, keyword, beyond, stdout>>
    /\ UNCHANGED <<GOOGLE_API_KEY, EMAIL_RECEIVERS, items,
                   response, report_html, genai_calls, smtp_calls, session, sent>>

\* feed.entries[:3] is exhausted: on to the next keyword
ForEntryDone ==
    /\ pc = "for_entry"
    /\ pending = <<>>
    /\ keyword' = keyword + 1
    /\ beyond' = <<>>
    /\ pc' = "for_keyword"
    /\ UNCHANGED <<GOOGLE_API_KEY, EMAIL_RECEIVERS, now, pending, news_items, items,
                   response, report_html, genai_calls, smtp_calls, session, sent, stdout>>

\* KEYWORDS is exhausted: print the count, return news_items to __main__;
\* the locals of fetch_news are gone
FetchNewsReturn ==
    /\ pc = "for_keyword"
    /\ keyword > Len(KEYWORDS)
    /\ stdout' = Append(stdout, "collected")
    /\ items' = news_items
    /\ pc' = "main_items"
    /\ keyword' = 0
    /\ news_items' = <<>>
    /\ UNCHANGED <<GOOGLE_API_KEY, EMAIL_RECEIVERS, now, pending, beyond,
                   response, report_html, genai_calls, smtp_calls, session, sent>>

----------------------------------------------------------------------------
(* generate_report *)

\* the backquote character (the parser does not take it inside a string)
BQ == "BQ"

FENCE_HTML == <<BQ, BQ, BQ, "h", "t", "m", "l">>
FENCE == <<BQ, BQ, BQ>>

\* response.text.replace(FENCE_HTML, "")
StripFencesHtmlOnly(text) == Replace(text, FENCE_HTML, <<>>)

\* response.text.replace(FENCE_HTML, "").replace(FENCE, "")
StripFences(text) == Replace(Replace(text, FENCE_HTML, <<>>), FENCE, <<>>)

\* except Exception as e: print(...); return str(e)
ReportFailedText ==
    /\ stdout' = Append(stdout, "ai_error")
    /\ report_html' = <<"e", "r", "r">>
    /\ pc' = "main_report"

\* except Exception as e: print(...); return None
ReportFailed ==
    /\ stdout' = Append(stdout, "ai_error")
    /\ report_html' = None
    /\ pc' = "main_report"

\* if not news_items: return None; otherwise enter the try block
GenerateReport ==
    /\ pc = "generate_report"
    /\ IF items = <<>>
       THEN /\ report_html' = None
            /\ pc' = "main_report"
            /\ UNCHANGED stdout
       ELSE /\ stdout' = Append(stdout, "ai_start")
            /\ pc' = "genai_configure"
            /\ UNCHANGED report_html
    /\ UNCHANGED <<GOOGLE_API_KEY, EMAIL_RECEIVERS, now, keyword, pending, beyond, news_items,
                   items, response, genai_calls, smtp_calls, session, sent>>

\* one call of the generative-language client, at position at: it returns
\* and control moves to next, or it raises
GenaiCall(at, name, next) ==
    /\ pc = at
    /\ genai_calls' = Append(genai_calls, name)
    /\ \/ pc' = next /\ UNCHANGED <<report_html, stdout>>
       \/ ReportFailed
    /\ UNCHANGED <<GOOGLE_API_KEY, EMAIL_RECEIVERS, now, keyword, pending, beyond, news_items,
                   items, response, smtp_calls, session, sent>>

GenaiConfigure == GenaiCall("genai_configure", "configure", "genai_model")

GenaiModel == GenaiCall("genai_model", "GenerativeModel", "generate_content")

\* model.generate_content(prompt): it raises, or returns a response whose
\* text is drawn from texts, or a response that has no text
GenerateContent(texts) ==
    /\ pc = "generate_content"
    /\ genai_calls' = Append(genai_calls, "generate_content")
    /\ \/ /\ \E t \in texts \cup {None} : response' = t
          /\ pc' = "response_text"
          /\ UNCHANGED <<report_html, stdout>>
       \/ ReportFailed /\ UNCHANGED response
    /\ UNCHANGED <<GOOGLE_API_KEY, EMAIL_RECEIVERS, now, keyword, pending, beyond, news_items,
                   items, smtp_calls, session, sent>>

\* return response.text.replace(...).replace(...); reading .text raises
\* when the response has none
ReturnReport ==
    /\ pc = "response_text"
    /\ IF response = None
       THEN ReportFailed
       ELSE /\ report_html' = StripFences(response)
            /\ pc' = "main_report"
            /\ UNCHANGED stdout
    /\ UNCHANGED <<GOOGLE_API_KEY, EMAIL_RECEIVERS, now, keyword, pending, beyond, news_items,
                   items, response, genai_calls, smtp_calls, session, sent>>

----------------------------------------------------------------------------
(* send_email *)

\* EMAIL_RECEIVERS.split(',')
ReceiversUnstripped(str) == Split(str, ",")

\* [r.strip() for r in EMAIL_RECEIVERS.split(',')]
Receivers(str) == [i \in 1..Len(Split(str, ",")) |-> Strip(Split(str, ",")[i])]

\* except Exception as e: print(...); send_email returns
DeliveryFailed ==
    /\ stdout' = Append(stdout, "send_failed")
    /\ pc' = "done"

\* if not html_body: return; otherwise build the message and enter the try block
SendEmail ==
    /\ pc = "send_email"
    /\ pc' = IF Falsy(report_html) THEN "done" ELSE "smtp_connect"
    /\ UNCHANGED <<GOOGLE_API_KEY, EMAIL_RECEIVERS, now, keyword, pending, beyond, news_items,
                   items, response, report_html, genai_calls, smtp_calls, session, sent,
                   stdout>>

\* server = smtplib.SMTP('smtp.gmail.com', 587)
SmtpConnect ==
    /\ pc = "smtp_connect"
    /\ smtp_calls' = Append(smtp_calls, "SMTP")
    /\ \/ session' = "open" /\ pc' = "smtp_starttls" /\ UNCHANGED stdout
       \/ DeliveryFailed /\ UNCHANGED session
    /\ UNCHANGED <<GOOGLE_API_KEY, EMAIL_RECEIVERS, now, keyword, pending, beyond, news_items,
                   items, response, report_html, genai_calls, sent>>

\* one command on the open session, at position at: it returns and control
\* moves to next, or it raises
SmtpCommand(at, name, next) ==
    /\ pc = at
    /\ smtp_calls' = Append(smtp_calls, name)
    /\ \/ pc' = next /\ UNCHANGED stdout
       \/ DeliveryFailed
    /\ UNCHANGED <<GOOGLE_API_KEY, EMAIL_RECEIVERS, now, keyword, pending, beyond, news_items,
                   items, response, report_html, genai_calls, session, sent>>

SmtpStarttls == SmtpCommand("smtp_starttls", "starttls", "smtp_login")

SmtpLogin == SmtpCommand("smtp_login", "login", "smtp_sendmail")

\* receivers = [...]; server.sendmail(EMAIL_SENDER, receivers, msg.as_string())
\* None has no split: AttributeError before sendmail is called
SmtpSendmail ==
    /\ pc = "smtp_sendmail"
    /\ IF EMAIL_RECEIVERS = None
       THEN DeliveryFailed /\ UNCHANGED <<smtp_calls, sent>>
       ELSE /\ smtp_calls' = Append(smtp_calls, "sendmail")
            /\ sent' = Append(sent, Receivers(EMAIL_RECEIVERS))
            /\ \/ pc' = "smtp_quit" /\ UNCHANGED stdout
               \/ DeliveryFailed
    /\ UNCHANGED <<GOOGLE_API_KEY, EMAIL_RECEIVERS, now, keyword, pending, beyond, news_items,
                   items, response, report_html, genai_calls, session>>

\* server.quit(); print(success)
SmtpQuit ==
    /\ pc = "smtp_quit"
    /\ smtp_calls' = Append(smtp_calls, "quit")
    /\ session' = "closed"
    /\ \/ stdout' = Append(stdout, "send_success") /\ pc' = "done"
       \/ DeliveryFailed
    /\ UNCHANGED <<GOOGLE_API_KEY, EMAIL_RECEIVERS, now, keyword, pending, beyond, news_items,
                   items, response, report_html, genai_calls, sent>>

----------------------------------------------------------------------------
(* __main__ *)

\* if not GOOGLE_API_KEY: print(...) else: items = fetch_news()
Main ==
    /\ pc = "main"
    /\ IF ~GOOGLE_API_KEY
       THEN /\ stdout' = Append(stdout, "no_api_key")
            /\ pc' = "done"
            /\ UNCHANGED <<news_items, keyword>>
       ELSE /\ stdout' = Append(stdout, "collect_start")
            /\ news_items' = <<>>
            /\ keyword' = 1
            /\ pc' = "for_keyword"
    /\ UNCHANGED <<GOOGLE_API_KEY, EMAIL_RECEIVERS, now, pending, beyond, items,
                   response, report_html, genai_calls, smtp_calls, session, sent>>

\* report_html = generate_report(items), whatever items holds
MainItemsUnguarded ==
    /\ pc = "main_items"
    /\ pc' = "generate_report"
    /\ UNCHANGED <<GOOGLE_API_KEY, EMAIL_RECEIVERS, now, keyword, pending, beyond,
                   news_items, items, response, report_html, genai_calls, smtp_calls,
                   session, sent, stdout>>

\* if items: report_html = generate_report(items) else: print(...)
MainItems ==
    /\ pc = "main_items"
    /\ IF items # <<>>
       THEN pc' = "generate_report" /\ UNCHANGED stdout
       ELSE stdout' = Append(stdout, "no_news") /\ pc' = "done"
    /\ UNCHANGED <<GOOGLE_API_KEY, EMAIL_RECEIVERS, now, keyword, pending, beyond, news_items,
                   items, response, report_html, genai_calls, smtp_calls, session, sent>>

\* if report_html: send_email(report_html) else: print(...)
MainReport ==
    /\ pc = "main_report"
    /\ IF ~Falsy(report_html)
       THEN pc' = "send_email" /\ UNCHANGED stdout
       ELSE stdout' = Append(stdout, "report_failed") /\ pc' = "done"
    /\ UNCHANGED <<GOOGLE_API_KEY, EMAIL_RECEIVERS, now, keyword, pending, beyond, news_items,
                   items, response, report_html, genai_calls, smtp_calls, session, sent>>

----------------------------------------------------------------------------
(* One run of the program *)

ExampleReceivers ==
    <<"a", "@", "x", ".", "c", "o", "m", ",", " ", "b", "@", "x", ".", "c", "o", "m">>

EnvReceivers == {ExampleReceivers, None}

WRAPPED == FENCE_HTML \o <<"<", "p", ">">> \o FENCE

ResponseSamples == {WRAPPED, <<"<", "p", ">">>, FENCE, <<>>}

Init ==
    /\ GOOGLE_API_KEY \in BOOLEAN
    /\ EMAIL_RECEIVERS \in EnvReceivers
    /\ pc = "main"
    /\ now = StartHour
    /\ keyword = 0
    /\ pending = <<>>
    /\ beyond = <<>>
    /\ news_items = <<>>
    /\ items = <<>>
    /\ response = None
    /\ report_html = None
    /\ genai_calls = <<>>
    /\ smtp_calls = <<>>
    /\ session = "none"
    /\ sent = <<>>
    /\ stdout = <<>>

Next ==
    \/ Main
    \/ ParseFeed(FeedSamples)
    \/ ParseFeedRaises
    \/ ForEntry
    \/ ForEntryDone
    \/ FetchNewsReturn
    \/ MainItems
    \/ GenerateReport
    \/ GenaiConfigure
    \/ GenaiModel
    \/ GenerateContent(ResponseSamples)
    \/ ReturnReport
    \/ MainReport
    \/ SendEmail
    \/ SmtpConnect
    \/ SmtpStarttls
    \/ SmtpLogin
    \/ SmtpSendmail
    \/ SmtpQuit

Spec == Init /\ [][Next]_vars

----------------------------------------------------------------------------
(* is_recent on its own: the last keyword's feed holds one entry, clean and *)
(* new to the list, whose date lies around the edge of the window          *)

ProbeHours ==
    (StartHour - WINDOW_HOURS - MaxSkew)..(StartHour - WINDOW_HOURS + MaxSkew)

ZoneSamples == {-5, 9}

ProbeDates ==
    {PublishedStr("naive", h, 0) : h \in ProbeHours}
    \cup {PublishedStr("aware", h + z, z) : h \in ProbeHours, z \in ZoneSamples}

InitRecent ==
    /\ GOOGLE_API_KEY = TRUE
    /\ EMAIL_RECEIVERS = ExampleReceivers
    /\ pc = "for_entry"
    /\ now = StartHour
    /\ keyword = Len(KEYWORDS)
    /\ pending \in {<<[published |-> d, title |-> CleanTitle, link |-> "L1"]>> :
                       d \in ProbeDates}
    /\ beyond = <<>>
    /\ news_items = <<>>
    /\ items = <<>>
    /\ response = None
    /\ report_html = None
    /\ genai_calls = <<>>
    /\ smtp_calls = <<>>
    /\ session = "none"
    /\ sent = <<>>
    /\ stdout = <<"collect_start">>

NextRecent ==
    \/ ForEntry
    \/ ForEntryDone
    \/ FetchNewsReturn

SpecRecent == InitRecent /\ [][NextRecent]_vars

----------------------------------------------------------------------------
(* generate_report from the call of the service on, over many texts *)

Pieces ==
    { <<BQ>>, <<BQ, BQ>>, FENCE, FENCE_HTML, <<"h", "t", "m", "l">>, <<"<", "p", ">">> }

\* the texts made of at most n pieces
RECURSIVE PieceTexts(_)
PieceTexts(n) ==
    IF n = 0 THEN {<<>>}
    ELSE PieceTexts(n - 1) \cup {t \o q : t \in PieceTexts(n - 1), q \in Pieces}

ResponseTexts == PieceTexts(MaxPieces)

InitStrip ==
    /\ GOOGLE_API_KEY = TRUE
    /\ EMAIL_RECEIVERS = ExampleReceivers
    /\ pc = "generate_content"
    /\ now = StartHour
    /\ keyword = 0
    /\ pending = <<>>
    /\ beyond = <<>>
    /\ news_items = <<>>
    /\ items = <<[title |-> CleanTitle, link |-> "L1", keyword |-> KEYWORDS[1],
                  date |-> FreshDate]>>
    /\ response = None
    /\ report_html = None
    /\ genai_calls = <<"configure", "GenerativeModel">>
    /\ smtp_calls = <<>>
    /\ session = "none"
    /\ sent = <<>>
    /\ stdout = <<"collect_start", "collected", "ai_start">>

NextStrip ==
    \/ GenerateContent(ResponseTexts)
    \/ ReturnReport
    \/ MainReport

SpecStrip == InitStrip /\ [][NextStrip]_vars

----------------------------------------------------------------------------
(* send_email on its own, over many values of EMAIL_RECEIVERS *)

RecvChars == {"a", ",", " "}

ReceiverStrings == UNION {[1..n -> RecvChars] : n \in 0..MaxRecvLen}

InitSend ==
    /\ GOOGLE_API_KEY = TRUE
    /\ EMAIL_RECEIVERS \in ReceiverStrings \cup EnvReceivers
    /\ pc = "send_email"
    /\ now = StartHour
    /\ keyword = 0
    /\ pending = <<>>
    /\ beyond = <<>>
    /\ news_items = <<>>
    /\ items = <<[title |-> CleanTitle, link |-> "L1", keyword |-> KEYWORDS[1],
                  date |-> FreshDate]>>
    /\ response = <<"<", "p", ">">>
    /\ report_html = <<"<", "p", ">">>
    /\ genai_calls = <<"configure", "GenerativeModel", "generate_content">>
    /\ smtp_calls = <<>>
    /\ session = "none"
    /\ sent = <<>>
    /\ stdout = <<"collect_start", "collected", "ai_start">>

NextSend ==
    \/ SendEmail
    \/ SmtpConnect
    \/ SmtpStarttls
    \/ SmtpLogin
    \/ SmtpSendmail
    \/ SmtpQuit

SpecSend == InitSend /\ [][NextSend]_vars

----------------------------------------------------------------------------
(* Properties of one run *)

Printed(line) == line \in Range(stdout)

Count(list, link) == Cardinality({i \in 1..Len(list) : list[i].link = link})

InFetch(at) == at \in {"for_keyword", "for_entry"}

\* C1: in a run where fetch_news returned an empty list, no call goes to
\* the generative-language service, no SMTP connection is opened, and the
\* run ends right after collection.
C1_ShortCircuit ==
    (Printed("collected") /\ items = <<>>) =>
        /\ genai_calls = <<>>
        /\ smtp_calls = <<>>
        /\ sent = <<>>
        /\ pc \in {"main_items", "done"}

C1_Witness ==
    /\ pc = "done"
    /\ Printed("collected")
    /\ items = <<>>
    /\ Printed("no_news")

\* C2: in a run where a call of the generative-language client raises
\* (configure, model construction, generate_content or reading the text),
\* generate_report returns no document and nothing is attempted on SMTP.
C2_SummaryFailureFatal ==
    Printed("ai_error") =>
        /\ report_html = None
        /\ smtp_calls = <<>>
        /\ sent = <<>>
        /\ session = "none"
        /\ pc \in {"main_report", "done"}

C2_Witness ==
    /\ pc = "done"
    /\ Printed("ai_error")
    /\ Printed("report_failed")
    /\ genai_calls = <<"configure", "GenerativeModel", "generate_content">>
    /\ response = None

LateLinks == {e.link : e \in LateSamples}

FanInBounded(list) ==
    /\ \A i \in 1..Len(list) : list[i].link \notin LateLinks
    /\ \A k \in 1..Len(KEYWORDS) :
          Cardinality({i \in 1..Len(list) : list[i].keyword = KEYWORDS[k]}) <= FAN_IN
    /\ Len(list) <= FAN_IN * Len(KEYWORDS)

\* C6: for every keyword only the first 3 entries of its feed are examined:
\* an entry at position 4 or later never appears in the output, each keyword
\* contributes at most 3 items, and the output has at most 3 x |KEYWORDS| items.
C6_BoundedFanIn ==
    /\ Len(pending) <= FAN_IN
    /\ FanInBounded(news_items)
    /\ FanInBounded(items)

\* the first three entries of a longer feed were all turned down, and the
\* fourth, which would be accepted, is left alone
C6_Witness ==
    /\ pc = "for_entry"
    /\ pending = <<>>
    /\ beyond # <<>>
    /\ \A i \in 1..Len(news_items) : news_items[i].keyword # KEYWORDS[keyword]
    /\ EntryAccepted(beyond[1], news_items, now)

\* a step in which the handler of a keyword's exception runs
KeywordFailure ==
    /\ Len(stdout') = Len(stdout) + 1
    /\ stdout'[Len(stdout')] = "keyword_error"

\* C8: when fetching or processing one keyword's feed raises, every item
\* accepted so far is kept and fetch_news goes on with the next keyword in
\* order, in the state it would be in had the feed ended there.
C8_FailureIsolation ==
    [][KeywordFailure =>
        /\ InFetch(pc)
        /\ news_items' = news_items
        /\ keyword' = keyword + 1
        /\ pc' = "for_keyword"
        /\ pending' = <<>>
        /\ (pc = "for_entry" => beyond' = <<>>)]_vars

\* the first keyword failed after one of its entries was accepted, and a
\* later keyword added an item of its own
C8_Witness ==
    /\ pc = "main_items"
    /\ stdout = <<"collect_start", "keyword_error", "collected">>
    /\ Len(items) >= 2
    /\ items[1].keyword = KEYWORDS[1]
    /\ items[Len(items)].keyword = KEYWORDS[Len(KEYWORDS)]

NoDuplicateLink(list) ==
    \A i, j \in 1..Len(list) : list[i].link = list[j].link => i = j

IsPrefix(s, t) == Len(s) <= Len(t) /\ SubSeq(t, 1, Len(s)) = s

\* the entry has every field the loop body reads and passes both filters
\* when read at now_utc
Passes(entry, now_utc) ==
    /\ Has(entry, "published")
    /\ Has(entry, "title")
    /\ Has(entry, "link")
    /\ is_recent(entry.published, now_utc)
    /\ ~is_stock_noise(entry.title)

\* C3 as stated: no two items of news_items share a link, and when two
\* entries among the first three of a keyword's feed pass both filters and
\* share a link, the output holds exactly one item with that link, carrying
\* the first keyword that met it.  So when fetch_news leaves a keyword, the
\* link of any such pair among the entries it had before it is in the list
\* exactly once (a later keyword could only add it under its own name).
\* Stated here for feeds whose entries all carry a published field.
C3_AsStated ==
    [][/\ NoDuplicateLink(news_items')
       /\ (/\ pc = "for_entry"
           /\ pc' = "for_keyword"
           /\ \A i \in 1..Len(pending) : Has(pending[i], "published")) =>
             \A i, j \in 1..Len(pending) :
                 (/\ i < j
                  /\ Passes(pending[i], now')
                  /\ Passes(pending[j], now')
                  /\ pending[i].link = pending[j].link)
                 => Count(news_items', pending[i].link) = 1]_vars

\* C3, amended: no two items of news_items, or of the returned list, share
\* a link; an entry that the loop reads and that passes both filters leaves
\* exactly one item with its link in the list: the list is unchanged when
\* the link is already retained, and gains that entry under the current
\* keyword otherwise; the list only grows, and is returned as it stands.
C3_Dedup ==
    [][/\ NoDuplicateLink(news_items')
       /\ NoDuplicateLink(items')
       /\ (pc = "for_entry" /\ pending # <<>> /\ Passes(Head(pending), now')) =>
             /\ Count(news_items', Head(pending).link) = 1
             /\ pc' = "for_entry"
             /\ news_items' = IF \E i \in 1..Len(news_items) :
                                     news_items[i].link = Head(pending).link
                               THEN news_items
                               ELSE Append(news_items,
                                           [title |-> Head(pending).title,
                                            link |-> Head(pending).link,
                                            keyword |-> KEYWORDS[keyword],
                                            date |-> Head(pending).published])
       /\ (InFetch(pc) /\ InFetch(pc')) => IsPrefix(news_items, news_items')
       /\ (InFetch(pc) /\ ~InFetch(pc')) => items' = news_items]_vars

\* an entry that passes is about to be read while an earlier keyword's item
\* already holds its link
C3_Witness ==
    /\ pc = "for_entry"
    /\ pending # <<>>
    /\ Passes(Head(pending), now)
    /\ \E i \in 1..Len(news_items) :
          /\ news_items[i].link = Head(pending).link
          /\ news_items[i].keyword # KEYWORDS[keyword]

\* the entry gives no timestamp that parses: no published field, an empty
\* string, or text that is no date
Unparseable(entry) == ~Has(entry, "published") \/ ~Parseable(entry.published)

\* C4: an entry without a parseable published timestamp (malformed, empty or
\* absent) that is among the first three of its feed, whose title is not
\* stock noise and whose link is not yet retained, is retained, and the loop
\* goes on to the later entries of the same keyword.
C4_FailOpen ==
    [][(/\ pc = "for_entry"
        /\ pending # <<>>
        /\ Unparseable(Head(pending))
        /\ Has(Head(pending), "title")
        /\ ~is_stock_noise(Head(pending).title)
        /\ Has(Head(pending), "link")
        /\ ~Retained(Head(pending).link, news_items))
       => /\ Len(news_items') = Len(news_items) + 1
          /\ news_items'[Len(news_items')].link = Head(pending).link
          /\ pc' = "for_entry"
          /\ pending' = Tail(pending)]_vars

\* C5: for an entry whose published timestamp parses, is_recent turns the
\* entry down if and only if the timestamp, taken to UTC (as UTC when it
\* names no zone), is more than 24 hours before the instant of evaluation;
\* an entry aged 24 hours or less passes.
C5_Window ==
    [][(/\ pc = "for_entry"
        /\ pending # <<>>
        /\ Has(Head(pending), "published")
        /\ Parseable(Head(pending).published)
        /\ Has(Head(pending), "title")
        /\ ~is_stock_noise(Head(pending).title)
        /\ Has(Head(pending), "link")
        /\ ~Retained(Head(pending).link, news_items))
       => ((news_items' = news_items)
             <=> (now' - UtcHour(Head(pending).published) > WINDOW_HOURS))]_vars

\* C7: the document generate_report returns holds no three backquotes in a
\* row, whatever text the service returned, also when taking a delimiter
\* out brings backquotes together.
C7_NoFenceLeft ==
    (pc = "main_report" /\ report_html # None) => ~Contains(report_html, FENCE)

\* the text held two backquotes, a FENCE_HTML and one more backquote:
\* taking FENCE_HTML out brought three together
C7_Witness ==
    /\ pc = "main_report"
    /\ response = <<BQ, BQ>> \o FENCE_HTML \o <<BQ>> \o <<"<", "p", ">">>
    /\ report_html = <<"<", "p", ">">>

CommaPositions(s) == {i \in 1..Len(s) : s[i] = ","}

\* the k-th comma-separated field of s, by the places of the commas
Field(s, k) ==
    LET commas == CommaPositions(s)
        ends == {i \in commas : Cardinality({j \in commas : j < i}) = k - 1}
        starts == {i \in commas : Cardinality({j \in commas : j < i}) = k - 2}
        first == IF k = 1 THEN 1 ELSE (CHOOSE i \in starts : TRUE) + 1
        last == IF ends = {} THEN Len(s) ELSE (CHOOSE i \in ends : TRUE) - 1
    IN  Slice(s, first, last)

\* r is f without the whitespace around it
Trimmed(f, r) ==
    /\ r = <<>> \/ (r[1] \notin Whitespace /\ r[Len(r)] \notin Whitespace)
    /\ \E a, b \in 0..Len(f) :
          /\ a + Len(r) + b = Len(f)
          /\ \A i \in 1..a : f[i] \in Whitespace
          /\ \A i \in 1..Len(r) : f[a + i] = r[i]
          /\ \A i \in (a + Len(r) + 1)..Len(f) : f[i] \in Whitespace

TwoAddresses ==
    << <<"a", "@", "x", ".", "c", "o", "m">>, <<"b", "@", "x", ".", "c", "o", "m">> >>

\* C9: sendmail is called at most once, and the recipient list it is handed
\* is the sequence of the comma-separated fields of EMAIL_RECEIVERS, in
\* order, each without the whitespace around it; for "a@x.com, b@x.com" it
\* is the two addresses a@x.com and b@x.com.
C9_RecipientParsing ==
    /\ Len(sent) <= 1
    /\ Cardinality({i \in 1..Len(smtp_calls) : smtp_calls[i] = "sendmail"}) = Len(sent)
    /\ sent # <<>> =>
          /\ EMAIL_RECEIVERS # None
          /\ Len(sent[1]) = Cardinality(CommaPositions(EMAIL_RECEIVERS)) + 1
          /\ \A k \in 1..Len(sent[1]) : Trimmed(Field(EMAIL_RECEIVERS, k), sent[1][k])
          /\ EMAIL_RECEIVERS = ExampleReceivers => sent[1] = TwoAddresses

C9_Witness ==
    /\ pc = "done"
    /\ EMAIL_RECEIVERS = ExampleReceivers
    /\ sent = <<TwoAddresses>>
    /\ Printed("send_success")

\* C10: a run of send_email opens at most one session, and a session it
\* opened is closed by quit before send_email returns, on success and also
\* when STARTTLS, login or sendmail fails; a failed delivery is logged, is
\* not tried again, and send_email returns.
C10_SessionClosure ==
    /\ Cardinality({i \in 1..Len(smtp_calls) : smtp_calls[i] = "SMTP"}) <= 1
    /\ Cardinality({i \in 1..Len(stdout) : stdout[i] = "send_failed"}) <= 1
    /\ pc = "done" => session \in {"none", "closed"}

====
